---------------------------- MODULE Spec2Model ----------------------------
(* String Analyzer service (src/main.py): the in-memory STORE, the analyzer, *)
(* the filter engine, the natural-language query parser, the lookup          *)
(* resolver and the HTTP handlers built on them.                             *)
(*                                                                           *)
(* A Python str is a sequence of one-character strings; "" is << >>.         *)
(* An Optional[T] is << >> (None) or <<x>>.                                  *)
EXTENDS Integers, Sequences, FiniteSets, TLC

\* ---------------------------------------------------------------- bounds
\* Largest number of records the model lets the STORE hold.
MaxStore == 2
\* created_at timestamps are drawn from 0..MaxTime.
MaxTime == 1
\* A natural-language query is built from at most MaxFrags phrases.
MaxFrags == 2
\* Number of request-handling threads of the concurrent specification.
NumThreads == 2

\* Length of a SHA-256 hex digest, the {64} of find_string's regex.
DigestLen == 64

\* ------------------------------------------------------------ characters
HexDigits == <<"0", "1", "2", "3", "4", "5", "6", "7", "8", "9", "a", "b", "c", "d", "e", "f">>
LowerLetters == <<"a", "b", "c", "d", "e", "f", "g", "h", "i", "j", "k", "l", "m", "n", "o", "p", "q", "r", "s", "t", "u", "v", "w", "x", "y", "z">>
UpperLetters == <<"A", "B", "C", "D", "E", "F", "G", "H", "I", "J", "K", "L", "M", "N", "O", "P", "Q", "R", "S", "T", "U", "V", "W", "X", "Y", "Z">>
Digits == <<"0", "1", "2", "3", "4", "5", "6", "7", "8", "9">>

\* Position of x in sequence s, 0 when absent.
IndexOf(s, x) ==
  IF \E i \in 1..Len(s) : s[i] = x
  THEN CHOOSE i \in 1..Len(s) : s[i] = x
  ELSE 0

Range(s) == {s[i] : i \in 1..Len(s)}

\* F(x), with x evaluated once before F is applied to it.
With(x, F(_)) == CHOOSE r \in {F(v) : v \in {x}} : TRUE

\* Every character the model's strings are made of.
AllChars ==
  Range(HexDigits) \cup Range(LowerLetters) \cup Range(UpperLetters)
    \cup {" ", "\t", "\n", "\r"}

LowerCharTable ==
  [c \in AllChars |->
     IF IndexOf(UpperLetters, c) > 0 THEN LowerLetters[IndexOf(UpperLetters, c)] ELSE c]

\* str.lower() on one character.
lower_char(c) == LowerCharTable[c]

\* str.lower(): character by character, as an explicit tuple.
lower(text) == SubSeq([i \in 1..Len(text) |-> lower_char(text[i])], 1, Len(text))

\* The regex class \s (and what str.strip() removes).
IsSpace(c) == c \in {" ", "\t", "\n", "\r"}

HexSet == Range(HexDigits)
LowerSet == Range(LowerLetters)
DigitSet == Range(Digits)

\* The regex class [0-9a-f].
IsHex(c) == c \in HexSet

\* The regex class [a-z].
IsLowerLetter(c) == c \in LowerSet

\* The regex class \d.
IsDigit(c) == c \in DigitSet

\* s[::-1]
Reverse(s) == [i \in 1..Len(s) |-> s[Len(s) + 1 - i]]

\* ------------------------------------------------------------------ hash
\* hashlib.sha256(b).hexdigest(): a deterministic digest of DigestLen
\* lowercase hex characters.  The compression function is replaced by a
\* 16-bit accumulator over the character codes and their positions, spread
\* over the DigestLen hex positions; HashCollisionFree states that it is injective on
\* every string the model handles, which is all the handlers rely on.
CodeTable ==
  [c \in AllChars |->
     IF IndexOf(HexDigits, c) > 0 THEN IndexOf(HexDigits, c)
     ELSE IF IndexOf(LowerLetters, c) > 0 THEN 16 + IndexOf(LowerLetters, c)
     ELSE IF IndexOf(UpperLetters, c) > 0 THEN 42 + IndexOf(UpperLetters, c)
     ELSE 69 + IndexOf(<<" ", "\t", "\n", "\r">>, c)]

CharCode(c) == CodeTable[c]

\* The accumulator: the position-weighted sum of the character codes of
\* s[lo..hi], by halving.
RECURSIVE HashAcc(_, _, _)
HashAcc(s, lo, hi) ==
  IF lo > hi THEN 0
  ELSE IF lo = hi THEN (CharCode(s[lo]) * (lo * lo * 7 + lo * 131 + 1)) % 65536
  ELSE LET mid == (lo + hi) \div 2
       IN (HashAcc(s, lo, mid) + HashAcc(s, mid + 1, hi)) % 65536

Pow16(k) == CASE k = 0 -> 1 [] k = 1 -> 16 [] k = 2 -> 256 [] k = 3 -> 4096

\* The DigestLen hex characters of accumulator h.
hexdigest(h) ==
  LET digit(i) == HexDigits[(((h \div Pow16((i - 1) % 4)) + (i - 1) \div 4) % 16) + 1]
  IN SubSeq([i \in 1..DigestLen |-> digit(i)], 1, DigestLen)

sha256_hex(s) == hexdigest((40503 + 977 * Len(s) + HashAcc(s, 1, Len(s))) % 65536)

\* ------------------------------------------------- the strings of the model
V_Aa == <<"A", "a">>
V_aa == <<"a", "a">>
V_AA == <<"A", "A">>
V_bc == <<"b", " ", "c">>
V_empty == << >>
\* A value that is itself 64 lowercase hex characters.
V_hex == SubSeq([i \in 1..DigestLen |-> "a"], 1, DigestLen)
\* A value that is the hex digest (the id) of the record of "aa".
V_digest == sha256_hex(lower(V_aa))

\* What clients submit to POST /strings.
Values == {V_Aa, V_aa, V_bc, V_hex, V_digest}

\* What clients put in the path of GET/DELETE /strings/{string_value}: a
\* value in some casing, or an id.  (A path parameter is never empty.)
Tokens == Values \cup {V_AA} \cup {sha256_hex(lower(v)) : v \in Values}

\* Every string that is stored or looked up.
Strings == Tokens \cup {V_empty}

\* The lowercase forms and the digests of the model's strings, computed once.
LowerTable == [s \in Strings |-> lower(s)]
ShaTable == [s \in Strings \cup {lower(t) : t \in Strings} |-> sha256_hex(s)]

\* def normalize(text): return text.lower()
normalize(text) == IF text \in DOMAIN LowerTable THEN LowerTable[text] ELSE lower(text)

\* hashlib.sha256(s.encode()).hexdigest()
sha256(s) == IF s \in DOMAIN ShaTable THEN ShaTable[s] ELSE sha256_hex(s)

\* The digest is collision-free on the strings of the model.
HashCollisionFree ==
  \A s, t \in DOMAIN ShaTable : sha256(s) = sha256(t) => s = t

\* -------------------------------------------------------------- analyzer
\* len(re.findall(r"\S+", value)): the maximal runs of non-whitespace.
word_count_of(value) ==
  Cardinality({i \in 1..Len(value) :
                 /\ ~IsSpace(value[i])
                 /\ (i = 1 \/ IsSpace(value[i - 1]))})

CountOf(s, c) == Cardinality({i \in 1..Len(s) : s[i] = c})

\* The positions of s that hold the first occurrence of their character.
FirstOccurrences(s) == {i \in 1..Len(s) : \A j \in 1..(i - 1) : s[j] # s[i]}

RECURSIVE SortedSeq(_)
SortedSeq(S) ==
  IF S = {} THEN << >>
  ELSE LET m == CHOOSE x \in S : \A y \in S : x <= y
       IN <<m>> \o SortedSeq(S \ {m})

\* dict(Counter(s)): one (character, count) item per distinct character, in
\* first-occurrence order.  A key is a one-character str.
character_map_of(s) ==
  LET firsts == SortedSeq(FirstOccurrences(s))
  IN [k \in 1..Len(firsts) |->
        [key |-> <<s[firsts[k]]>>, count |-> CountOf(s, s[firsts[k]])]]

\* analyze_string with the hash taken of the raw value: the mutation
\* "forgot to normalize before hashing".
analyze_string_RawHash(value) ==
  LET lower_value == normalize(value)
  IN [length |-> Len(value),
      is_palindrome |-> (lower_value = Reverse(lower_value)),
      unique_characters |-> Cardinality(Range(lower_value)),
      word_count |-> word_count_of(value),
      sha256_hash |-> sha256(value),
      character_frequency_map |-> character_map_of(lower_value)]

\* def analyze_string(value)
analyze_string(value) ==
  LET lower_value == normalize(value)
  IN [length |-> Len(value),
      is_palindrome |-> (lower_value = Reverse(lower_value)),
      unique_characters |-> Cardinality(Range(lower_value)),
      word_count |-> word_count_of(value),
      sha256_hash |-> sha256(lower_value),
      character_frequency_map |-> character_map_of(lower_value)]

\* ----------------------------------------------------------------- store
\* STORE: Dict[str, Dict], a dict in insertion order: a sequence of
\* [key, rec] items with distinct keys.
Keys(store) == {store[i].key : i \in 1..Len(store)}

\* sid in STORE
HasKey(store, k) == k \in Keys(store)

KeyIndex(store, k) == CHOOSE i \in 1..Len(store) : store[i].key = k

\* STORE[k], for a key that is present.
StoreItem(store, k) == store[KeyIndex(store, k)].rec

\* STORE.get(k): << >> is None.
StoreGet(store, k) == IF HasKey(store, k) THEN <<StoreItem(store, k)>> ELSE << >>

\* STORE[k] = rec: a present key keeps its place and takes the new value.
StoreSet(store, k, rec) ==
  IF HasKey(store, k)
  THEN [store EXCEPT ![KeyIndex(store, k)] = [key |-> k, rec |-> rec]]
  ELSE Append(store, [key |-> k, rec |-> rec])

\* del STORE[k], for a key that is present.
StoreDel(store, k) ==
  LET i == KeyIndex(store, k)
  IN SubSeq(store, 1, i - 1) \o SubSeq(store, i + 1, Len(store))

\* list(STORE.values())
StoreValues(store) == [i \in 1..Len(store) |-> store[i].rec]

\* ------------------------------------------------------- lookup resolver
\* re.fullmatch(r"[0-9a-f]{64}", s)
IsFingerprint(s) ==
  /\ Len(s) = DigestLen
  /\ \A i \in 1..Len(s) : IsHex(s[i])

\* The records whose value, lowercased, is norm: what the scan compares.
ScanHits(store, norm) ==
  {i \in 1..Len(store) : normalize(store[i].rec.value) = norm}

\* def find_string(value_or_id): rec is the Optional record returned, tier
\* the return statement that produced it (1: by id, 2: by hash of the
\* normalized value, 3: the scan, 0: the final return None).
find_string(store, value_or_id) ==
  IF IsFingerprint(value_or_id)
  THEN [rec |-> StoreGet(store, value_or_id), tier |-> 1]
  ELSE LET norm == normalize(value_or_id)
           sid == sha256(norm)
       IN IF HasKey(store, sid)
          THEN [rec |-> <<StoreItem(store, sid)>>, tier |-> 2]
          ELSE IF ScanHits(store, norm) # {}
               THEN [rec |-> <<store[CHOOSE i \in ScanHits(store, norm) :
                                        \A j \in ScanHits(store, norm) : i <= j].rec>>,
                     tier |-> 3]
               ELSE [rec |-> << >>, tier |-> 0]

\* --------------------------------------------------------- filter engine
\* The criteria of apply_filters: each field is None (<< >>) or <<value>>.
NoCriteria ==
  [is_palindrome |-> << >>, min_length |-> << >>, max_length |-> << >>,
   word_count |-> << >>, contains_character |-> << >>]

\* Python's truth value of an Optional[str]: None and "" are false.
Truthy(opt) == opt # << >> /\ opt[1] # << >>

\* ch in props["character_frequency_map"]
InCharacterMap(ch, map) == \E k \in 1..Len(map) : map[k].key = ch

\* The body of apply_filters' loop: TRUE when no `continue` is taken.
Kept(item, c) ==
  LET props == item.properties
  IN /\ ~(c.is_palindrome # << >> /\ props.is_palindrome # c.is_palindrome[1])
     /\ ~(c.min_length # << >> /\ props.length < c.min_length[1])
     /\ ~(c.max_length # << >> /\ props.length > c.max_length[1])
     /\ ~(c.word_count # << >> /\ props.word_count # c.word_count[1])
     /\ ~(/\ Truthy(c.contains_character)
          /\ ~InCharacterMap(normalize(c.contains_character[1]),
                             props.character_frequency_map))

\* def apply_filters(strings, is_palindrome, min_length, max_length,
\*                   word_count, contains_character)
apply_filters(strings, c) == SelectSeq(strings, LAMBDA item : Kept(item, c))

\* ------------------------------------------------------ query interpreter
P_palind == <<"p", "a", "l", "i", "n", "d">>
P_single_word == <<"s", "i", "n", "g", "l", "e", " ", "w", "o", "r", "d">>
P_longer_than == <<"l", "o", "n", "g", "e", "r", " ", "t", "h", "a", "n", " ">>
P_containing == <<"c", "o", "n", "t", "a", "i", "n", "i", "n", "g", " ", "t", "h", "e", " ", "l", "e", "t", "t", "e", "r">>
P_first_vowel == <<"f", "i", "r", "s", "t", " ", "v", "o", "w", "e", "l">>

\* q[i:].startswith(pat), i from 1.
StartsAt(q, i, pat) ==
  /\ i + Len(pat) - 1 <= Len(q)
  /\ SubSeq(q, i, i + Len(pat) - 1) = pat

\* pat in q
Contains(q, pat) == \E i \in 1..(Len(q) + 1) : StartsAt(q, i, pat)

\* str.strip()
strip(s) ==
  LET solid == {i \in 1..Len(s) : ~IsSpace(s[i])}
  IN IF solid = {} THEN << >>
     ELSE SubSeq(s, CHOOSE i \in solid : \A j \in solid : i <= j,
                    CHOOSE i \in solid : \A j \in solid : j <= i)

\* The end of the longest run of characters satisfying Test that starts at i
\* (i - 1 when the run is empty): a greedy X* or X+.
RunEnd(q, i, Test(_)) ==
  IF i > Len(q) \/ ~Test(q[i]) THEN i - 1
  ELSE CHOOSE j \in i..Len(q) :
         /\ \A k \in i..j : Test(q[k])
         /\ (j = Len(q) \/ ~Test(q[j + 1]))

\* int(digits)
RECURSIVE int(_)
int(digits) ==
  IF digits = << >> THEN 0
  ELSE 10 * int(SubSeq(digits, 1, Len(digits) - 1))
       + (IndexOf(Digits, digits[Len(digits)]) - 1)

Least(S) == CHOOSE x \in S : \A y \in S : x <= y

\* re.search(r"longer than (\d+)", q): << >> or <<group(1)>> of the leftmost
\* match.
search_longer_than(q) ==
  LET at == {i \in 1..Len(q) :
               /\ StartsAt(q, i, P_longer_than)
               /\ RunEnd(q, i + Len(P_longer_than), IsDigit) >= i + Len(P_longer_than)}
  IN IF at = {} THEN << >>
     ELSE LET d == Least(at) + Len(P_longer_than)
          IN <<SubSeq(q, d, RunEnd(q, d, IsDigit))>>

\* re.search(r"containing the letter\s+([a-z])", q): << >> or <<group(1)>>
\* of the leftmost match.
search_containing(q) ==
  LET After(i) == RunEnd(q, i + Len(P_containing), IsSpace) + 1
      at == {i \in 1..Len(q) :
               /\ StartsAt(q, i, P_containing)
               /\ After(i) > i + Len(P_containing)
               /\ After(i) <= Len(q)
               /\ IsLowerLetter(q[After(i)])}
  IN IF at = {} THEN << >> ELSE <<<<q[After(Least(at))]>>>>

\* parse_query with an off-by-one in the "longer than N" rule.
parse_query_NoPlusOne(query) ==
  LET rules(q) ==
        LET f1 == IF Contains(q, P_palind)
                  THEN [NoCriteria EXCEPT !.is_palindrome = <<TRUE>>] ELSE NoCriteria
            f2 == IF Contains(q, P_single_word)
                  THEN [f1 EXCEPT !.word_count = <<1>>] ELSE f1
            f3 == IF search_longer_than(q) # << >>
                  THEN [f2 EXCEPT !.min_length = <<int(search_longer_than(q)[1])>>]
                  ELSE f2
            f4 == IF search_containing(q) # << >>
                  THEN [f3 EXCEPT !.contains_character = search_containing(q)] ELSE f3
            f5 == IF Contains(q, P_first_vowel)
                  THEN [f4 EXCEPT !.contains_character = <<<<"a">>>>] ELSE f4
        IN [ok |-> f5 # NoCriteria, filters |-> f5]
  IN With(strip(normalize(query)), rules)

\* def parse_query(query): ok is FALSE when ValueError is raised.
parse_query(query) ==
  LET rules(q) ==
        LET f1 == IF Contains(q, P_palind)
                  THEN [NoCriteria EXCEPT !.is_palindrome = <<TRUE>>] ELSE NoCriteria
            f2 == IF Contains(q, P_single_word)
                  THEN [f1 EXCEPT !.word_count = <<1>>] ELSE f1
            f3 == IF search_longer_than(q) # << >>
                  THEN [f2 EXCEPT !.min_length = <<int(search_longer_than(q)[1]) + 1>>]
                  ELSE f2
            f4 == IF search_containing(q) # << >>
                  THEN [f3 EXCEPT !.contains_character = search_containing(q)] ELSE f3
            f5 == IF Contains(q, P_first_vowel)
                  THEN [f4 EXCEPT !.contains_character = <<<<"a">>>>] ELSE f4
        IN [ok |-> f5 # NoCriteria, filters |-> f5]
  IN With(strip(normalize(query)), rules)

\* The analysis of each value a client may submit, computed once.
Analysis == [v \in Values \cup {V_empty} |-> analyze_string(v)]

\* -------------------------------------------------------------- handlers
\* A handler is an operator from the STORE and the request to the response
\* (status, body) and the STORE it leaves.  body is << >> when empty.
NewRecord(value, props, now) ==
  [id |-> props.sha256_hash, value |-> value, properties |-> props, created_at |-> now]

\* create_string without the "sid in STORE" test: the mutation "forgot the
\* conflict check", so that a second create overwrites.
create_string_NoConflictCheck(store, value, now) ==
  LET props == Analysis[value]
      sid == props.sha256_hash
      record == NewRecord(value, props, now)
  IN [status |-> 201, body |-> <<record>>, store |-> StoreSet(store, sid, record)]

\* create_string storing the record under the digest of the raw value: the
\* mutation "keyed the dict by the un-normalized value's hash".
create_string_RawKey(store, value, now) ==
  LET props == Analysis[value]
      sid == props.sha256_hash
      record == NewRecord(value, props, now)
  IN IF HasKey(store, sha256(value))
     THEN [status |-> 409, body |-> << >>, store |-> store]
     ELSE [status |-> 201, body |-> <<record>>,
           store |-> StoreSet(store, sha256(value), record)]

\* POST /strings: def create_string(data).  now is get_time_now().
create_string(store, value, now) ==
  LET props == Analysis[value]
      sid == props.sha256_hash
      record == NewRecord(value, props, now)
  IN IF HasKey(store, sid)
     THEN [status |-> 409, body |-> << >>, store |-> store]
     ELSE [status |-> 201, body |-> <<record>>, store |-> StoreSet(store, sid, record)]

\* GET /strings/{string_value}: def get_string(string_value)
get_string(store, string_value) ==
  LET record == find_string(store, string_value).rec
  IN IF record = << >>
     THEN [status |-> 404, body |-> << >>, store |-> store]
     ELSE [status |-> 200, body |-> record, store |-> store]

\* DELETE /strings/{string_value}: def delete_string(string_value).
\* del STORE[record["id"]] raises KeyError when the key is absent, which the
\* server answers with 500.
delete_string(store, string_value) ==
  LET record == find_string(store, string_value).rec
  IN IF record = << >>
     THEN [status |-> 404, body |-> << >>, store |-> store]
     ELSE IF HasKey(store, record[1].id)
          THEN [status |-> 204, body |-> << >>, store |-> StoreDel(store, record[1].id)]
          ELSE [status |-> 500, body |-> << >>, store |-> store]

\* GET /strings: def list_strings(is_palindrome, min_length, max_length,
\*                                word_count, contains_character)
list_strings(store, c) ==
  IF Truthy(c.contains_character) /\ Len(c.contains_character[1]) # 1
  THEN [status |-> 400, body |-> << >>, store |-> store]
  ELSE LET results == apply_filters(StoreValues(store), c)
       IN [status |-> 200,
           body |-> [data |-> results, count |-> Len(results), filters_applied |-> c],
           store |-> store]

\* GET /strings/filter-by-natural-language: def filter_nl(query)
filter_nl(store, query) ==
  LET respond(parsed) ==
        IF ~parsed.ok
        THEN [status |-> 400, body |-> << >>, store |-> store]
        ELSE LET filtered == apply_filters(StoreValues(store), parsed.filters)
             IN [status |-> 200,
                 body |-> [data |-> filtered, count |-> Len(filtered),
                           interpreted_query |->
                             [original |-> query, parsed_filters |-> parsed.filters]],
                 store |-> store]
  IN With(parse_query(query), respond)

\* ----------------------------------------------------------------- state
VARIABLES
  STORE,    \* the module-level dict
  req,      \* the request handled last
  resp,     \* the response to it
  threads   \* concurrent specification: each worker thread's frame

vars == <<STORE, req, resp, threads>>

Times == 0..MaxTime

\* A thread's frame: where it is in its handler (pc) and the handler's locals.
\* rival is history, not a local: another thread's call on the same key
\* succeeded (201 or 204) while this call was in progress.
Idle ==
  [pc |-> "idle", op |-> "none", arg |-> << >>, sid |-> << >>, record |-> << >>,
   idx |-> 0, size |-> 0, rival |-> FALSE]

Init ==
  /\ STORE = << >>
  /\ req = [op |-> "none"]
  /\ resp = [status |-> 0, body |-> << >>]
  /\ threads = [t \in 1..NumThreads |-> Idle]

Answer(r) == [status |-> r.status, body |-> r.body]

\* ------------------------------------- sequential use: one request at a time
Create ==
  \E value \in Values, now \in Times :
    LET r == create_string(STORE, value, now)
    IN /\ Len(r.store) <= MaxStore
       /\ STORE' = r.store
       /\ req' = [op |-> "create", value |-> value]
       /\ resp' = Answer(r)
       /\ UNCHANGED threads

Get ==
  \E token \in Tokens :
    LET r == get_string(STORE, token)
    IN /\ STORE' = r.store
       /\ req' = [op |-> "get", token |-> token]
       /\ resp' = Answer(r)
       /\ UNCHANGED threads

Delete ==
  \E token \in Tokens :
    LET r == delete_string(STORE, token)
    IN /\ STORE' = r.store
       /\ req' = [op |-> "delete", token |-> token]
       /\ resp' = Answer(r)
       /\ UNCHANGED threads

Next == Create \/ Get \/ Delete

Spec == Init /\ [][Next]_vars

\* --------------------------------------------- the stores requests are put to
\* The STORE after POSTing the values of vs in order.
RECURSIVE StoreAfter(_)
StoreAfter(vs) ==
  IF vs = << >> THEN << >>
  ELSE create_string(StoreAfter(SubSeq(vs, 1, Len(vs) - 1)), vs[Len(vs)], 0).store

SeedStores ==
  {StoreAfter(vs) : vs \in {<< >>, <<V_Aa>>, <<V_bc, V_aa>>, <<V_hex, V_empty>>,
                            <<V_empty, V_bc, V_Aa>>}}

Unanswered == [status |-> 0, body |-> << >>]

\* ------------------------------------------------------- GET /strings
\* The query parameters a client may send; "" is ?contains_character=
CriteriaSet ==
  [is_palindrome : {<< >>, <<TRUE>>, <<FALSE>>},
   min_length : {<< >>, <<0>>, <<3>>},
   max_length : {<< >>, <<2>>},
   word_count : {<< >>, <<0>>, <<1>>},
   contains_character : {<< >>, <<V_empty>>, <<<<"a">>>>, <<<<"B">>>>, <<<<"a", "b">>>>}]

ListInit ==
  /\ STORE \in SeedStores
  /\ req \in {[op |-> "list", criteria |-> c] : c \in CriteriaSet}
  /\ resp = Unanswered
  /\ threads = [t \in 1..NumThreads |-> Idle]

List ==
  /\ req.op = "list"
  /\ resp = Unanswered
  /\ LET r == list_strings(STORE, req.criteria)
     IN /\ STORE' = r.store
        /\ resp' = Answer(r)
  /\ UNCHANGED <<req, threads>>

ListNext == List

ListSpec == ListInit /\ [][ListNext]_vars

\* ------------------------------ GET /strings/filter-by-natural-language
\* The phrases queries are made of, each with the rules of the table it is
\* an instance of (N of "longer than N", X of "containing the letter X").
Phrases ==
  <<
    [text |-> <<"p", "a", "l", "i", "n", "d", "r", "o", "m", "i", "c">>,
     palind |-> TRUE, single_word |-> FALSE, longer_than |-> << >>, letter |-> << >>, first_vowel |-> FALSE],
    [text |-> <<"S", "i", "n", "g", "l", "e", " ", "W", "o", "r", "d">>,
     palind |-> FALSE, single_word |-> TRUE, longer_than |-> << >>, letter |-> << >>, first_vowel |-> FALSE],
    [text |-> <<"l", "o", "n", "g", "e", "r", " ", "t", "h", "a", "n", " ", "5">>,
     palind |-> FALSE, single_word |-> FALSE, longer_than |-> <<5>>, letter |-> << >>, first_vowel |-> FALSE],
    [text |-> <<"l", "o", "n", "g", "e", "r", " ", "t", "h", "a", "n", " ", "1", "2">>,
     palind |-> FALSE, single_word |-> FALSE, longer_than |-> <<12>>, letter |-> << >>, first_vowel |-> FALSE],
    [text |-> <<"c", "o", "n", "t", "a", "i", "n", "i", "n", "g", " ", "t", "h", "e", " ", "l", "e", "t", "t", "e", "r", " ", "z">>,
     palind |-> FALSE, single_word |-> FALSE, longer_than |-> << >>, letter |-> <<<<"z">>>>, first_vowel |-> FALSE],
    [text |-> <<"C", "o", "n", "t", "a", "i", "n", "i", "n", "g", " ", "T", "h", "e", " ", "L", "e", "t", "t", "e", "r", " ", " ", "B">>,
     palind |-> FALSE, single_word |-> FALSE, longer_than |-> << >>, letter |-> <<<<"b">>>>, first_vowel |-> FALSE],
    [text |-> <<"f", "i", "r", "s", "t", " ", "v", "o", "w", "e", "l">>,
     palind |-> FALSE, single_word |-> FALSE, longer_than |-> << >>, letter |-> << >>, first_vowel |-> TRUE],
    [text |-> <<"b", "a", "n", "a", "n", "a", " ", "b", "r", "e", "a", "d">>,
     palind |-> FALSE, single_word |-> FALSE, longer_than |-> << >>, letter |-> << >>, first_vowel |-> FALSE],
    [text |-> <<"c", "o", "n", "t", "a", "i", "n", "i", "n", "g", " ", "t", "h", "e", " ", "l", "e", "t", "t", "e", "r", " ", "7">>,
     palind |-> FALSE, single_word |-> FALSE, longer_than |-> << >>, letter |-> << >>, first_vowel |-> FALSE],
    [text |-> <<"l", "o", "n", "g", "e", "r", " ", "t", "h", "a", "n", " ", "t", "e", "n">>,
     palind |-> FALSE, single_word |-> FALSE, longer_than |-> << >>, letter |-> << >>, first_vowel |-> FALSE],
    [text |-> <<"s", "t", "r", "i", "n", "g", "s">>,
     palind |-> FALSE, single_word |-> FALSE, longer_than |-> << >>, letter |-> << >>, first_vowel |-> FALSE]
  >>

RECURSIVE SeqsUpTo(_, _)
SeqsUpTo(S, n) ==
  IF n = 0 THEN {<< >>}
  ELSE SeqsUpTo(S, n - 1)
         \cup {Append(q, x) : q \in {p \in SeqsUpTo(S, n - 1) : Len(p) = n - 1}, x \in S}

\* The phrases ps[1], ps[2], ... separated by single spaces.
RECURSIVE QueryText(_)
QueryText(ps) ==
  IF ps = << >> THEN << >>
  ELSE IF Len(ps) = 1 THEN Phrases[ps[1]].text
  ELSE QueryText(SubSeq(ps, 1, Len(ps) - 1)) \o <<" ">> \o Phrases[ps[Len(ps)]].text

QueryInit ==
  /\ STORE \in SeedStores
  /\ req \in {[op |-> "filter_nl", query |-> QueryText(ps), phrases |-> ps] :
                ps \in SeqsUpTo(1..Len(Phrases), MaxFrags)}
  /\ resp = Unanswered
  /\ threads = [t \in 1..NumThreads |-> Idle]

FilterNL ==
  /\ req.op = "filter_nl"
  /\ resp = Unanswered
  /\ LET r == filter_nl(STORE, req.query)
     IN /\ STORE' = r.store
        /\ resp' = Answer(r)
  /\ UNCHANGED <<req, threads>>

QueryNext == FilterNL

QuerySpec == QueryInit /\ [][QueryNext]_vars

\* ------------------------------------------- concurrent request handling
\* create_string and delete_string are plain `def` endpoints: the server runs
\* each call on a worker thread, and the threads interleave between the
\* handlers' accesses to STORE (each access is one step; STORE has no lock).
Threads == 1..NumThreads

ConcValues == {V_Aa, V_aa, V_bc}
ConcTokens == {V_aa, V_AA, V_bc, V_digest}

InProgress(op) == {t \in Threads : threads[t].op = op}

\* Thread t's call ends with response r; the calls still in progress on the
\* same key learn of a success.
Return(t, r, success) ==
  /\ req' = [op |-> threads[t].op, arg |-> threads[t].arg, thread |-> t]
  /\ resp' = Answer(r)
  /\ threads' =
       [u \in Threads |->
          IF u = t THEN Idle
          ELSE IF /\ success
                  /\ threads[u].op = threads[t].op
                  /\ threads[u].sid = threads[t].sid
               THEN [threads[u] EXCEPT !.rival = TRUE]
               ELSE threads[u]]

Goto(t, frame) ==
  /\ threads' = [threads EXCEPT ![t] = frame]
  /\ UNCHANGED <<req, resp>>

\* Lines 140-146: the request arrives; props and sid are computed.
StartCreate(t) ==
  \E value \in ConcValues :
    /\ threads[t].pc = "idle"
    /\ Len(STORE) + Cardinality(InProgress("create")) < MaxStore
    /\ Goto(t, [Idle EXCEPT !.pc = "create_check", !.op = "create", !.arg = value,
                            !.sid = Analysis[value].sha256_hash])
    /\ UNCHANGED STORE

\* Lines 148-149: if sid in STORE: raise HTTPException(409).
CreateCheck(t) ==
  /\ threads[t].pc = "create_check"
  /\ IF HasKey(STORE, threads[t].sid)
     THEN Return(t, [status |-> 409, body |-> << >>], FALSE)
     ELSE Goto(t, [threads[t] EXCEPT !.pc = "create_store"])
  /\ UNCHANGED STORE

\* Lines 151-158: the record is built and stored, whatever STORE holds now.
CreateStore(t) ==
  \E now \in Times :
    LET record == NewRecord(threads[t].arg, Analysis[threads[t].arg], now)
    IN /\ threads[t].pc = "create_store"
       /\ STORE' = StoreSet(STORE, threads[t].sid, record)
       /\ Return(t, [status |-> 201, body |-> <<record>>], TRUE)

\* Line 238: delete_string calls find_string(string_value).  sid is the key
\* the token stands for: itself, or the digest of its lowercase form.
StartDelete(t) ==
  \E token \in ConcTokens :
    /\ threads[t].pc = "idle"
    /\ Goto(t, [Idle EXCEPT !.pc = "find", !.op = "delete", !.arg = token,
                            !.sid = IF IsFingerprint(token) THEN token
                                    ELSE sha256(normalize(token))])
    /\ UNCHANGED STORE

NotFound == [status |-> 404, body |-> << >>]
ServerError == [status |-> 500, body |-> << >>]

\* Lines 118-124: STORE.get(value_or_id) for a fingerprint, else the test
\* `sid in STORE`; line 128 creates the iterator of the scan.  A None result
\* is answered 404 by lines 239-240.
FindLookup(t) ==
  /\ threads[t].pc = "find"
  /\ IF IsFingerprint(threads[t].arg)
     THEN IF HasKey(STORE, threads[t].arg)
          THEN Goto(t, [threads[t] EXCEPT !.pc = "del",
                                          !.record = StoreGet(STORE, threads[t].arg)])
          ELSE Return(t, NotFound, FALSE)
     ELSE IF HasKey(STORE, threads[t].sid)
          THEN Goto(t, [threads[t] EXCEPT !.pc = "find_item"])
          ELSE Goto(t, [threads[t] EXCEPT !.pc = "find_scan", !.idx = 1,
                                          !.size = Len(STORE)])
  /\ UNCHANGED STORE

\* Line 125: return STORE[sid], a KeyError when the key has gone meanwhile.
FindItem(t) ==
  /\ threads[t].pc = "find_item"
  /\ IF HasKey(STORE, threads[t].sid)
     THEN Goto(t, [threads[t] EXCEPT !.pc = "del",
                                     !.record = StoreGet(STORE, threads[t].sid)])
     ELSE Return(t, ServerError, FALSE)
  /\ UNCHANGED STORE

\* Lines 128-132: one turn of `for record in STORE.values()`.  The iterator
\* raises RuntimeError when the dict's size has changed since it was made.
FindScan(t) ==
  /\ threads[t].pc = "find_scan"
  /\ IF Len(STORE) # threads[t].size
     THEN Return(t, ServerError, FALSE)
     ELSE IF threads[t].idx > Len(STORE)
     THEN Return(t, NotFound, FALSE)
     ELSE IF normalize(STORE[threads[t].idx].rec.value) = normalize(threads[t].arg)
     THEN Goto(t, [threads[t] EXCEPT !.pc = "del",
                                     !.record = <<STORE[threads[t].idx].rec>>])
     ELSE Goto(t, [threads[t] EXCEPT !.idx = threads[t].idx + 1])
  /\ UNCHANGED STORE

\* Lines 241-242: del STORE[record["id"]], a KeyError when the key has gone.
Del(t) ==
  /\ threads[t].pc = "del"
  /\ IF HasKey(STORE, threads[t].record[1].id)
     THEN /\ STORE' = StoreDel(STORE, threads[t].record[1].id)
          /\ Return(t, [status |-> 204, body |-> << >>], TRUE)
     ELSE /\ UNCHANGED STORE
          /\ Return(t, ServerError, FALSE)

ConcNext ==
  \E t \in Threads :
    \/ StartCreate(t)
    \/ CreateCheck(t)
    \/ CreateStore(t)
    \/ StartDelete(t)
    \/ FindLookup(t)
    \/ FindItem(t)
    \/ FindScan(t)
    \/ Del(t)

ConcSpec == Init /\ [][ConcNext]_vars

\* Delete requests alone, handled concurrently, on a STORE that was filled
\* before.
ConcDeleteInit ==
  /\ STORE \in SeedStores
  /\ req = [op |-> "none"]
  /\ resp = Unanswered
  /\ threads = [t \in Threads |-> Idle]

ConcDeleteNext ==
  \E t \in Threads :
    \/ StartDelete(t)
    \/ FindLookup(t)
    \/ FindItem(t)
    \/ FindScan(t)
    \/ Del(t)

ConcDeleteSpec == ConcDeleteInit /\ [][ConcDeleteNext]_vars

\* ================================================================ claims
\* C1: round trip of the lookup resolver: right after create_string(v)
\* answers 201 with record r, find_string returns r for r's id, for v and
\* for v lowercased, whatever v is (also 64 lowercase hex characters).
C1_RoundTrip ==
  (req.op = "create" /\ resp.status = 201) =>
    LET r == resp.body
    IN /\ find_string(STORE, r[1].id).rec = r
       /\ find_string(STORE, req.value).rec = r
       /\ find_string(STORE, normalize(req.value)).rec = r

\* C2: create-once: a create_string(s2) handled while a stored record's
\* value lowercases to the same string as s2 answers 409 and leaves the
\* STORE as it was (same records, values, properties, created_at, order).
C2_CreateOnce ==
  [][(/\ req'.op = "create"
      /\ \E i \in 1..Len(STORE) :
           normalize(STORE[i].rec.value) = normalize(req'.value))
     => (resp'.status = 409 /\ STORE' = STORE)]_vars

\* A create of another casing of a stored value was refused.
C2_Witness ==
  /\ req.op = "create"
  /\ resp.status = 409
  /\ \E i \in 1..Len(STORE) :
       /\ STORE[i].rec.value # req.value
       /\ normalize(STORE[i].rec.value) = normalize(req.value)

C7_StoreInvariant ==
  /\ \A i \in 1..Len(STORE) :
       /\ STORE[i].key = STORE[i].rec.id
       /\ STORE[i].rec.id = STORE[i].rec.properties.sha256_hash
       /\ STORE[i].rec.id = sha256(normalize(STORE[i].rec.value))
  /\ \A i, j \in 1..Len(STORE) :
       normalize(STORE[i].rec.value) = normalize(STORE[j].rec.value) => i = j

\* The STORE is full and holds a value that is not its own lowercase form.
C7_Witness ==
  /\ Len(STORE) = MaxStore
  /\ \E i \in 1..Len(STORE) : STORE[i].rec.value # normalize(STORE[i].rec.value)

\* C10: the scan of find_string never produces the result: for every
\* token, find_string does not return from its third tier, and for a token
\* that is no fingerprint its result is the lookup by the digest of the
\* lowercased token.
C10_ScanNeverHits ==
  \A token \in Strings :
    \A found \in {find_string(STORE, token)} :
      /\ found.tier # 3
      /\ ~IsFingerprint(token) =>
           found.rec = StoreGet(STORE, sha256(normalize(token)))

\* A token in another casing than the stored value was resolved.
C10_Witness ==
  /\ req.op = "get"
  /\ resp.status = 200
  /\ ~IsFingerprint(req.token)
  /\ resp.body[1].value # req.token
  /\ normalize(resp.body[1].value) = normalize(req.token)

\* What the filter criteria mean: a supplied (not None) criterion must hold.
Satisfies(item, c) ==
  LET props == item.properties
  IN /\ c.is_palindrome # << >> => props.is_palindrome = c.is_palindrome[1]
     /\ c.min_length # << >> => props.length >= c.min_length[1]
     /\ c.max_length # << >> => props.length <= c.max_length[1]
     /\ c.word_count # << >> => props.word_count = c.word_count[1]
     /\ c.contains_character # << >> =>
          \E k \in 1..Len(props.character_frequency_map) :
            props.character_frequency_map[k].key = lower(c.contains_character[1])

\* C5: list_strings answers 400 to every supplied contains_character that
\* is not exactly one character long, the empty string included.
C5_RejectsNotOneChar ==
  (/\ req.op = "list"
   /\ resp # Unanswered
   /\ req.criteria.contains_character # << >>
   /\ Len(req.criteria.contains_character[1]) # 1)
  => resp.status = 400

\* C8: the records apply_filters returns are exactly the records of its
\* input that satisfy every supplied criterion, in the input's order, also
\* for supplied values that are falsy; the input is left as it was.
C8_ExactFilter ==
  (req.op = "list" /\ resp # Unanswered) =>
    /\ apply_filters(StoreValues(STORE), req.criteria)
         = SelectSeq(StoreValues(STORE), LAMBDA item : Satisfies(item, req.criteria))
    /\ resp.status = 200 =>
         resp.body.data
           = SelectSeq(StoreValues(STORE), LAMBDA item : Satisfies(item, req.criteria))

\* The criteria the table gives for the phrases ps: a rule applies when one
\* of the phrases is an instance of it; N and X are those of the leftmost
\* instance, and "first vowel" overrides "containing the letter X".
Instances(ps, Rule(_)) == {i \in 1..Len(ps) : Rule(Phrases[ps[i]])}

TableCriteria(ps) ==
  LET palind == Instances(ps, LAMBDA p : p.palind)
      single == Instances(ps, LAMBDA p : p.single_word)
      longer == Instances(ps, LAMBDA p : p.longer_than # << >>)
      letter == Instances(ps, LAMBDA p : p.letter # << >>)
      vowel == Instances(ps, LAMBDA p : p.first_vowel)
  IN [is_palindrome |-> IF palind # {} THEN <<TRUE>> ELSE << >>,
      word_count |-> IF single # {} THEN <<1>> ELSE << >>,
      min_length |-> IF longer # {}
                     THEN <<Phrases[ps[Least(longer)]].longer_than[1] + 1>>
                     ELSE << >>,
      max_length |-> << >>,
      contains_character |->
        IF vowel # {} THEN <<<<"a">>>>
        ELSE IF letter # {} THEN Phrases[ps[Least(letter)]].letter
        ELSE << >>]

\* C9: parse_query returns exactly the criteria of the table's patterns
\* that occur in the text, "first vowel" winning over "containing the
\* letter X"; it fails (400) exactly when no pattern occurs, and a
\* successful result is never the empty criteria.
C9_ParseQuery ==
  (req.op = "filter_nl" /\ resp # Unanswered) =>
    LET expected == TableCriteria(req.phrases)
    IN IF expected = NoCriteria
       THEN resp.status = 400
       ELSE /\ resp.status = 200
            /\ resp.body.interpreted_query.parsed_filters = expected
            /\ resp.body.interpreted_query.parsed_filters # NoCriteria

\* A query with both "containing the letter X" and "first vowel" was
\* parsed, and contains_character came out as "a".
C9_Witness ==
  /\ req.op = "filter_nl"
  /\ resp.status = 200
  /\ \E i \in 1..Len(req.phrases) : Phrases[req.phrases[i]].letter # << >>
  /\ \E i \in 1..Len(req.phrases) : Phrases[req.phrases[i]].first_vowel
  /\ resp.body.interpreted_query.parsed_filters.contains_character = <<<<"a">>>>

\* C3: concurrent creates: a create_string call that stores its record
\* (answers 201) has not been overtaken by another create of the same
\* normalized value that also answered 201, and it stores under a key that
\* is still absent, so that no stored record is overwritten.
C3_ConcurrentCreateOnce ==
  [][\A t \in Threads :
       (threads[t].pc = "create_store" /\ threads'[t].pc = "idle") =>
         /\ ~threads[t].rival
         /\ ~HasKey(STORE, threads[t].sid)]_vars

\* C4: concurrent deletes: every delete_string call answers 204 or 404, and
\* a call overtaken by a successful delete of the same record answers 404.
C4_ConcurrentDeleteOutcomes ==
  [][\A t \in Threads :
       (threads[t].op = "delete" /\ threads'[t].pc = "idle") =>
         /\ resp'.status \in {204, 404}
         /\ threads[t].rival => resp'.status = 404]_vars
====
